---- MODULE Spec2Model ----
(***************************************************************************)
(* A model of the attempt lifecycle of the exam application: the student   *)
(* page TakeExam (loadExam, handleAnswerChange/saveAnswer,                 *)
(* handleSubmitExam), the teacher's changeExamStatus of MyExams, and the   *)
(* tables, uniqueness constraints and row-level-security policies of the   *)
(* schema migration they run against.                                      *)
(*                                                                         *)
(* One exam and one student are modelled.  The student has several open    *)
(* pages (Sessions); every `await` of a handler is a step of its own, so   *)
(* that the requests of different pages interleave at the store exactly    *)
(* where the code lets them.  Left out: a change of an answer while the     *)
(* same page's submission is running, and a forced submission started      *)
(* while the page's own submission is still running (the timer effect      *)
(* waits for the running one to end).  The state updates loadExam makes    *)
(* after its last await reach the page in one render.                      *)
(*                                                                         *)
(* Further sections model the countdown of a time limit (SpecTimer), the   *)
(* teacher page CreateExam with generate_access_code (SpecCreate) and the  *)
(* row-level-security policies as requests of arbitrary callers            *)
(* (SpecPolicies); each specification moves its own variables and holds    *)
(* the others still.                                                       *)
(*                                                                         *)
(* Encoding of values.  JSON values are tagged strings, so that JavaScript *)
(* strict equality (===) is string equality here: the number 1 is "n1",    *)
(* the booleans are "true" and "false", a text t is "s:t", JSON null is    *)
(* "null" and a missing key of a JavaScript object is "undefined".  A      *)
(* nullable numeric column is a set: {} is NULL and {n} is the number n.   *)
(***************************************************************************)
EXTENDS Integers, Sequences, FiniteSets, TLC

(***************************************************************************)
(* Bounds of the model.                                                    *)
(***************************************************************************)
NumSessions == 2
MaxAttemptRows == 3
\* Handler invocations (loadExam, handleAnswerChange, handleSubmitExam, leaving
\* the page, changeExamStatus) in one behaviour.
MaxOps == 5
\* Firings of the one-second timeout of a page in one behaviour.
MaxTicks == 1
\* The wall clock (milliseconds) stops here.
MaxNow == 61000

\* CreateExam pages submitting at the same time.
NumCreators == 2
\* Invocations of CreateExam's handleSubmit in one behaviour.
MaxSubmits == 2
\* exam_attempts rows the policies are evaluated on.
MaxPolicyRows == 1
\* MyExams pages the creator has open.
NumMenus == 2
\* Exams the foreign keys are followed over.
NumExams == 2

Sessions == 1..NumSessions
Creators == 1..NumCreators
Menus == 1..NumMenus

\* The identities that send requests: two teachers' and two students'
\* accounts (auth.uid() of each is its name), and a caller without session.
Users == {"teacher", "colleague", "student", "classmate"}
Callers == Users \cup {"anon"}

(***************************************************************************)
(* Program constants.                                                      *)
(***************************************************************************)
Unlimited == 999
MsPerSecond == 1000
SecondsPerMinute == 60

\* The values of the max_attempts select of CreateExam (3 left out: the cap
\* MaxAttemptRows makes it behave as the unlimited sentinel does).
MaxAttemptsChoices == {1, 2, Unlimited}

AutoGradable == {"multiple_choice", "true_false"}

\* Two exams, covering the four question types.  ExamA is the scenario of
\* the specification: a 2-point multiple_choice question whose correct
\* option is index 1, and a 3-point open_answer question.
ExamA ==
  << [question_type |-> "multiple_choice", points |-> 2, correct_answer |-> "n1"],
     [question_type |-> "open_answer", points |-> 3, correct_answer |-> "s:"] >>

ExamB ==
  << [question_type |-> "true_false", points |-> 1, correct_answer |-> "true"],
     [question_type |-> "matching", points |-> 2, correct_answer |-> "null"] >>

ExamChoices == {ExamA, ExamB}

\* What the inputs of the page hand to handleAnswerChange, per question type:
\* parseInt(value) of an option index, value === 'true', the text of the
\* textarea.  The page renders no input for a matching question.
InputValues(type) ==
  CASE type = "multiple_choice" -> {"n0", "n1"}
    [] type = "true_false" -> {"true", "false"}
    [] type = "open_answer" -> {"s:a"}
    [] OTHER -> {}

\* The steps the wall clock advances by (milliseconds): half a second short
\* of a minute, and a second more than a minute.
Delays == {59500, 61000}

VARIABLES
  \* ---- the store ----
  status,          \* exams.status of the exam
  max_attempts,    \* exams.max_attempts of the exam
  questions,       \* the exam's question rows, sorted by order_index
  exam_attempts,   \* the exam_attempts rows of the (exam, student) pair, in insertion order
  answers,         \* the rows of the answers table
  \* ---- one TakeExam page per session ----
  pc,              \* where the page's running handler stands
  attempts,        \* the rows the page's last loadExam read from exam_attempts
  attemptId,       \* useState attemptId (0 is null)
  exam,            \* useState exam: TRUE once setExam(examData) ran
  answersState,    \* useState answers: question -> value or "undefined"
  qIndex,          \* handleSubmitExam: the question the loop stands at
  totalScore,      \* handleSubmitExam: let totalScore
  totalPoints,     \* handleSubmitExam: let totalPoints
  questionData,    \* handleSubmitExam: the correct_answer just read, or "null"
  loadResult,      \* how the page's last loadExam ended
  \* ---- history ----
  scoreWrites,     \* attempt id -> number of updates that wrote its score (capped at 2)
  lastSaved,       \* <<attempt id, question>> -> value of the last save that reached the store
  ops              \* number of handler invocations so far

VARIABLES
  \* ---- the time limit ----
  time_limit,      \* exams.time_limit of the exam, in minutes ({} is NULL)
  now,             \* the wall clock, in milliseconds
  started_at,      \* attempt id -> exam_attempts.started_at
  timeLeft,        \* useState timeLeft of each page, in seconds ({} is null)
  effectDue,       \* the page's effect on [timeLeft] is due: timeLeft changed in the last render
  ticks            \* number of timeout firings so far

VARIABLES
  \* ---- CreateExam: one page per creator, and the rows it writes ----
  exams,           \* the rows of the exams table, in insertion order
  question_rows,   \* the rows of the questions table written by CreateExam
  createPc,        \* where each creator's running handleSubmit stands
  pending,         \* the form and status the running handleSubmit was invoked with
  codeData,        \* generate_access_code's candidate, then the code the rpc returned
  toast,           \* the last toast of each creator's page
  submits,         \* number of handleSubmit invocations so far
  lastSubmit       \* the creator and the form of the latest handleSubmit

VARIABLES
  \* ---- MyExams: the creator's open pages ----
  shown,           \* the status the page's list holds for the exam ("none" before the fetch)
  menuToast        \* the last toast of each page

VARIABLES
  \* ---- the foreign keys of the schema ----
  examIds,         \* the ids of the rows of exams
  questionRefs,    \* questions: id and exam_id
  attemptRefs,     \* exam_attempts: id and exam_id
  answerRefs       \* answers: attempt_id and question_id

VARIABLES
  \* ---- ExamResult: one page per viewer ----
  show_results_immediately,  \* exams.show_results_immediately of the exam
  resultAttempt,   \* the attempt asked for: student_id and completed_at
  resultPc         \* where each viewer's page stands

VARIABLES
  \* ---- QuestionForm: the question it edits ----
  question,        \* question_type, options ({} is undefined) and correct_answer
  lastEdit         \* the latest call and its argument

VARIABLES
  \* ---- requests of arbitrary callers under the row-level-security policies ----
  profiles,        \* identity -> role of its profile
  examRow,         \* the exam the policies are evaluated on ({} once deleted)
  attemptRows,     \* the exam_attempts rows of the exam
  answerRows,      \* the answers rows of those attempts
  reply            \* the last request and what the store answered

store == <<status, max_attempts, questions, exam_attempts, answers>>
page == <<pc, attempts, attemptId, exam, answersState, loadResult>>
submit == <<qIndex, totalScore, totalPoints, questionData>>
history == <<scoreWrites, lastSaved>>
lifecycle == <<store, page, submit, history, ops>>
countdown == <<timeLeft, effectDue>>
timing == <<time_limit, now, started_at, countdown, ticks>>
authoring == <<exams, question_rows, createPc, pending, codeData, toast, submits, lastSubmit>>
access == <<profiles, examRow, attemptRows, answerRows, reply>>
menus == <<shown, menuToast>>
references == <<examIds, questionRefs, attemptRefs, answerRefs>>
results == <<show_results_immediately, resultAttempt, resultPc>>
forms == <<question, lastEdit>>
rest == <<menus, references, results, forms>>
vars == <<lifecycle, timing, authoring, access, rest>>
\* What the attempt lifecycle leaves alone.
elsewhere == <<authoring, access, rest>>

\* A handler is invoked: one more of the MaxOps invocations of the behaviour.
Invoke == ops < MaxOps /\ ops' = ops + 1

QIds == 1..Len(questions)
NoAnswers == [q \in 1..2 |-> "undefined"]

(***************************************************************************)
(* Helpers on the store.                                                   *)
(***************************************************************************)
Range(s) == {s[i] : i \in 1..Len(s)}

\* The sum of the points of the questions of the set S.
RECURSIVE SumPoints(_)
SumPoints(S) ==
  IF S = {} THEN 0
  ELSE LET q == CHOOSE x \in S : TRUE IN questions[q].points + SumPoints(S \ {q})

\* The rows a filter on attempt_id and question_id selects.
AnswerRows(a, q) == {r \in answers : r.attempt_id = a /\ r.question_id = q}

\* UNIQUE(exam_id, student_id, attempt_number): the insert is rejected when a
\* row of the pair already carries the number.
\* A table without the constraint on attempt_number.
AttemptNumberFree(n) == FALSE

AttemptNumberTaken(n) == \E r \in Range(exam_attempts) : r.attempt_number = n

\* UNIQUE(attempt_id, question_id) of answers.
AnswerKeyTaken(a, q) == AnswerRows(a, q) # {}

\* The exam query with only drafts filtered out.
ExamReadableUnlessDraft == status \notin {"draft", "missing"}

\* Policy "Students can view active exams", and the .eq('status', 'active')
\* of loadExam's query.
ExamReadable == status = "active"

\* Policy "Students can view questions during exam": a student reads a
\* question row only while the exam is active.
QuestionReadable == status = "active"

\* No attempt exists and no page is open.
InitLifecycle ==
  /\ exam_attempts = << >>
  /\ answers = {}
  /\ pc = [s \in Sessions |-> "idle"]
  /\ attempts = [s \in Sessions |-> << >>]
  /\ attemptId = [s \in Sessions |-> 0]
  /\ exam = [s \in Sessions |-> FALSE]
  /\ answersState = [s \in Sessions |-> NoAnswers]
  /\ qIndex = [s \in Sessions |-> 0]
  /\ totalScore = [s \in Sessions |-> 0]
  /\ totalPoints = [s \in Sessions |-> 0]
  /\ questionData = [s \in Sessions |-> "null"]
  /\ loadResult = [s \in Sessions |-> "none"]
  /\ scoreWrites = [a \in 1..MaxAttemptRows |-> 0]
  /\ lastSaved = [k \in (1..MaxAttemptRows) \X (1..2) |-> "undefined"]
  /\ ops = 0

\* The clock starts at 0; no page holds a countdown.
InitTiming ==
  /\ now = 0
  /\ started_at = [a \in 1..MaxAttemptRows |-> 0]
  /\ timeLeft = [s \in Sessions |-> {}]
  /\ effectDue = [s \in Sessions |-> FALSE]
  /\ ticks = 0

\* No exam was created and no CreateExam page is submitting.
InitAuthoring ==
  /\ exams = << >>
  /\ question_rows = {}
  /\ createPc = [c \in Creators |-> "idle"]
  /\ pending = [c \in Creators |-> {}]
  /\ codeData = [c \in Creators |-> {}]
  /\ toast = [c \in Creators |-> "none"]
  /\ submits = 0
  /\ lastSubmit = {}

\* A correct_answer: an option's index, a boolean or a text.
Index(n) == [tag |-> "number", n |-> n]
Bool(b) == [tag |-> IF b THEN "true" ELSE "false", n |-> 0]
Text(s) == [tag |-> s, n |-> 0]

\* addQuestion's newQuestion
NewQuestion ==
  [question_type |-> "multiple_choice", options |-> {<<"", "", "", "">>},
   correct_answer |-> Index(0)]

NoEdit == [call |-> "none", index |-> 0]

\* No page of the creator is open.
InitViews ==
  /\ shown = [p \in Menus |-> "none"]
  /\ menuToast = [p \in Menus |-> "none"]
  /\ examIds = {}
  /\ questionRefs = {}
  /\ attemptRefs = {}
  /\ answerRefs = {}
  /\ show_results_immediately = FALSE
  /\ resultAttempt = [student_id |-> "student", completed_at |-> FALSE]
  /\ resultPc = [v \in Users |-> "closed"]
  /\ question = NewQuestion
  /\ lastEdit = NoEdit

\* No request was made.
NoReply == [caller |-> "anon", command |-> "none", table |-> "none", rows |-> {}]

\* Nothing for the policies to decide on.
NoAccess ==
  /\ profiles = [u \in Users |-> "student"]
  /\ examRow = {[creator_id |-> "teacher", status |-> "draft"]}
  /\ attemptRows = {}
  /\ answerRows = {}
  /\ reply = NoReply

\* An active exam without time limit.
Init ==
  /\ status = "active"
  /\ max_attempts \in MaxAttemptsChoices
  /\ questions \in ExamChoices
  /\ time_limit = {}
  /\ InitLifecycle
  /\ InitTiming
  /\ InitAuthoring
  /\ InitViews
  /\ NoAccess

(***************************************************************************)
(* loadExam.  The page is mounted (its state is the initial useState       *)
(* state) and loadExam reads the student's attempts of the exam.           *)
(***************************************************************************)
\* The columns of an exam_attempts row that loadExam looks at.
AttemptColumns(r) ==
  [id |-> r.id, attempt_number |-> r.attempt_number, completed_at |-> r.completed_at]

LoadReadAttempts(s) ==
  /\ pc[s] = "idle"
  /\ Invoke
  /\ pc' = [pc EXCEPT ![s] = "readExam"]
  /\ attempts' = [attempts EXCEPT ![s] =
        [i \in 1..Len(exam_attempts) |-> AttemptColumns(exam_attempts[i])]]
  /\ loadResult' = [loadResult EXCEPT ![s] = "none"]
  /\ UNCHANGED <<store, attemptId, exam, answersState, submit, history, timing, elsewhere>>

\* The limit check with > written for >=.
LimitReachedStrict(rows, max) == Len(rows) > max /\ max # Unlimited

\* attempts.length >= examData.max_attempts && examData.max_attempts !== 999
LimitReached(rows, max) == Len(rows) >= max /\ max # Unlimited

\* attempts?.find(attempt => !attempt.completed_at): the first incomplete row
\* of the rows read (0 when there is none).  The rows were read in descending
\* attempt_number, so the first is the one with the greatest number.
IncompleteAttempt(rows) ==
  LET inc == {i \in 1..Len(rows) : ~rows[i].completed_at}
  IN IF inc = {} THEN 0
     ELSE rows[CHOOSE i \in inc : \A j \in inc : rows[j].attempt_number <= rows[i].attempt_number].id

\* The exam query, then the decisions taken on its result.  The error and
\* limit branches navigate to the dashboard, which unmounts the page.
LoadReadExam(s) ==
  /\ pc[s] = "readExam"
  /\ UNCHANGED ops
  /\ IF ~ExamReadable
       THEN \* .single() finds no row: examError is thrown and caught
            /\ pc' = [pc EXCEPT ![s] = "idle"]
            /\ loadResult' = [loadResult EXCEPT ![s] = "error"]
            /\ UNCHANGED attemptId
       ELSE IF LimitReached(attempts[s], max_attempts)
       THEN /\ pc' = [pc EXCEPT ![s] = "idle"]
            /\ loadResult' = [loadResult EXCEPT ![s] = "limit"]
            /\ UNCHANGED attemptId
       ELSE IF IncompleteAttempt(attempts[s]) # 0
       THEN /\ pc' = [pc EXCEPT ![s] = "loadAnswers"]
            /\ attemptId' = [attemptId EXCEPT ![s] = IncompleteAttempt(attempts[s])]
            /\ UNCHANGED loadResult
       ELSE /\ pc' = [pc EXCEPT ![s] = "insert"]
            /\ UNCHANGED <<attemptId, loadResult>>
  /\ UNCHANGED <<store, attempts, exam, answersState, submit, history, timing, elsewhere>>

\* if (examData.time_limit): NULL and 0 set no countdown.
HasTimeLimit == time_limit # {} /\ time_limit # {0}
TimeLimit == CHOOSE m \in time_limit : TRUE

Max(a, b) == IF a >= b THEN a ELSE b

\* Math.floor((now - startTime) / 1000)
Elapsed(start) == (now - start) \div MsPerSecond

\* Math.max(0, time_limit * 60 - elapsed)
Remaining(start) == Max(0, TimeLimit * SecondsPerMinute - Elapsed(start))

\* setTimeLeft(v) on the page s.
SetTimeLeft(s, v) ==
  /\ timeLeft' = [timeLeft EXCEPT ![s] = {v}]
  /\ effectDue' = [effectDue EXCEPT ![s] = (timeLeft[s] # {v})]

\* The page s is unmounted: its state is gone and its timeout is cleared.
Unmount(s) ==
  /\ timeLeft' = [timeLeft EXCEPT ![s] = {}]
  /\ effectDue' = [effectDue EXCEPT ![s] = FALSE]

\* The resume branch: the existing answers of the attempt become the page's
\* answers, the remaining time is set, then setExam.
LoadExistingAnswers(s) ==
  /\ pc[s] = "loadAnswers"
  /\ UNCHANGED ops
  /\ answersState' = [answersState EXCEPT ![s] =
        [q \in 1..2 |->
           IF AnswerRows(attemptId[s], q) = {} THEN "undefined"
           ELSE (CHOOSE r \in AnswerRows(attemptId[s], q) : TRUE).answer_value]]
  /\ exam' = [exam EXCEPT ![s] = TRUE]
  /\ loadResult' = [loadResult EXCEPT ![s] = "resumed"]
  /\ pc' = [pc EXCEPT ![s] = "taking"]
  /\ IF HasTimeLimit
       THEN SetTimeLeft(s, Remaining(started_at[attemptId[s]]))
       ELSE UNCHANGED countdown
  /\ UNCHANGED <<store, attempts, attemptId, submit, history, time_limit, now,
                 started_at, ticks, elsewhere>>

\* The attempt number with one number skipped.
AttemptNumberSkipping(rows) == Len(rows) + 2

\* const attemptNumber = (attempts?.length || 0) + 1
AttemptNumber(rows) == Len(rows) + 1

\* The create branch: the store rejects the insert when the number is taken,
\* and the error is thrown to the catch block, which leaves the page.
InsertAttempt(s) ==
  /\ pc[s] = "insert"
  /\ UNCHANGED ops
  /\ LET attemptNumber == AttemptNumber(attempts[s])
         newId == Len(exam_attempts) + 1
     IN IF AttemptNumberTaken(attemptNumber)
          THEN /\ pc' = [pc EXCEPT ![s] = "idle"]
               /\ loadResult' = [loadResult EXCEPT ![s] = "conflict"]
               /\ UNCHANGED <<exam_attempts, attemptId, exam, started_at, countdown>>
          ELSE /\ Len(exam_attempts) < MaxAttemptRows
               /\ exam_attempts' = Append(exam_attempts,
                     [id |-> newId, attempt_number |-> attemptNumber,
                      completed_at |-> FALSE, score |-> {}, total_points |-> {}])
               /\ attemptId' = [attemptId EXCEPT ![s] = newId]
               /\ exam' = [exam EXCEPT ![s] = TRUE]
               /\ loadResult' = [loadResult EXCEPT ![s] = "created"]
               /\ pc' = [pc EXCEPT ![s] = "taking"]
               /\ started_at' = [started_at EXCEPT ![newId] = now]
               /\ IF HasTimeLimit
                    THEN SetTimeLeft(s, TimeLimit * SecondsPerMinute)
                    ELSE UNCHANGED countdown
  /\ UNCHANGED <<status, max_attempts, questions, answers, attempts, answersState,
                 submit, history, time_limit, now, ticks, elsewhere>>

\* The "Salir" button: navigate('/dashboard') unmounts the page and its state.
leave(s) ==
  /\ pc[s] = "taking"
  /\ Invoke
  /\ pc' = [pc EXCEPT ![s] = "idle"]
  /\ attemptId' = [attemptId EXCEPT ![s] = 0]
  /\ exam' = [exam EXCEPT ![s] = FALSE]
  /\ answersState' = [answersState EXCEPT ![s] = NoAnswers]
  /\ qIndex' = [qIndex EXCEPT ![s] = 0]
  /\ totalScore' = [totalScore EXCEPT ![s] = 0]
  /\ totalPoints' = [totalPoints EXCEPT ![s] = 0]
  /\ Unmount(s)
  /\ UNCHANGED <<store, attempts, loadResult, questionData, history, time_limit, now,
                 started_at, ticks, elsewhere>>

loadExam(s) ==
  \/ LoadReadAttempts(s)
  \/ LoadReadExam(s)
  \/ LoadExistingAnswers(s)
  \/ InsertAttempt(s)

(***************************************************************************)
(* handleAnswerChange and saveAnswer.  The page's answers are updated      *)
(* first; the upsert names no onConflict column, so the store resolves     *)
(* conflicts on the primary key id only.  The row sent carries no id: it   *)
(* is a fresh row, and when the attempt already holds an answer to the     *)
(* question UNIQUE(attempt_id, question_id) rejects it.  saveAnswer        *)
(* catches every error and only logs it.  A request may also never reach   *)
(* the store.                                                              *)
(***************************************************************************)
Upsert(a, q, v) ==
  IF AnswerKeyTaken(a, q) THEN answers
  ELSE answers \cup {[attempt_id |-> a, question_id |-> q, answer_value |-> v,
                      is_correct |-> "null", points_earned |-> {0}]}

saveAnswer(s, q, v, arrives) ==
  /\ attemptId[s] # 0
  /\ IF arrives
       THEN /\ answers' = Upsert(attemptId[s], q, v)
            /\ lastSaved' = [lastSaved EXCEPT ![<<attemptId[s], q>>] = v]
       ELSE UNCHANGED <<answers, lastSaved>>

handleAnswerChange(s) ==
  /\ pc[s] = "taking"
  /\ Invoke
  /\ \E q \in QIds : \E v \in InputValues(questions[q].question_type) :
       \E arrives \in BOOLEAN :
         /\ answersState' = [answersState EXCEPT ![s][q] = v]
         /\ saveAnswer(s, q, v, arrives)
  /\ UNCHANGED <<status, max_attempts, questions, exam_attempts, pc, attempts,
                 attemptId, exam, loadResult, submit, scoreWrites, timing, elsewhere>>

(***************************************************************************)
(* handleSubmitExam: the grading loop over exam.questions, one step per    *)
(* await, then the update that completes the attempt.                      *)
(***************************************************************************)
\* Where the loop stands when it reaches question i.
LoopAt(i) ==
  IF i > Len(questions) THEN "finalize"
  ELSE IF questions[i].question_type \in AutoGradable THEN "select"
  ELSE "update"

\* if (!attemptId || !exam) return; otherwise the loop starts.
SubmitStart(s) ==
  /\ pc[s] = "taking"
  /\ Invoke
  /\ attemptId[s] # 0 /\ exam[s]
  /\ qIndex' = [qIndex EXCEPT ![s] = 1]
  /\ totalScore' = [totalScore EXCEPT ![s] = 0]
  /\ totalPoints' = [totalPoints EXCEPT ![s] = 0]
  /\ pc' = [pc EXCEPT ![s] = LoopAt(1)]
  /\ UNCHANGED <<store, attempts, attemptId, exam, answersState, loadResult,
                 questionData, history, timing, elsewhere>>

\* multiple_choice and true_false: the question's correct_answer is read
\* from the store; .single() yields data null when the row is not visible.
SelectCorrectAnswer(s) ==
  /\ pc[s] = "select"
  /\ UNCHANGED ops
  /\ questionData' = [questionData EXCEPT ![s] =
        IF QuestionReadable THEN questions[qIndex[s]].correct_answer ELSE "null"]
  /\ pc' = [pc EXCEPT ![s] = "update"]
  /\ UNCHANGED <<store, attempts, attemptId, exam, answersState, loadResult,
                 qIndex, totalScore, totalPoints, history, timing, elsewhere>>

\* questionData && userAnswer === questionData.correct_answer
IsCorrect(data, userAnswer) == data # "null" /\ userAnswer = data

\* The grade the loop writes for a question: is_correct and points_earned.
Grade(q, data, userAnswer) ==
  IF questions[q].question_type \in AutoGradable
    THEN IF IsCorrect(data, userAnswer)
           THEN [is_correct |-> "true", points_earned |-> {questions[q].points}]
           ELSE [is_correct |-> "false", points_earned |-> {0}]
    ELSE [is_correct |-> "null", points_earned |-> {}]

\* update(...).eq('attempt_id', a).eq('question_id', q): every matching row
\* (none, when the attempt holds no answer to the question).
UpdateAnswerRows(a, q, g) ==
  {IF r.attempt_id = a /\ r.question_id = q
     THEN [r EXCEPT !.is_correct = g.is_correct, !.points_earned = g.points_earned]
     ELSE r : r \in answers}

\* What a question adds to totalScore.
ScoreOf(q, data, userAnswer) ==
  IF questions[q].question_type \in AutoGradable /\ IsCorrect(data, userAnswer)
    THEN questions[q].points ELSE 0

UpdateAnswer(s) ==
  /\ pc[s] = "update"
  /\ UNCHANGED ops
  /\ LET q == qIndex[s]
         userAnswer == answersState[s][q]
     IN /\ totalPoints' = [totalPoints EXCEPT ![s] = @ + questions[q].points]
        /\ totalScore' = [totalScore EXCEPT ![s] = @ + ScoreOf(q, questionData[s], userAnswer)]
        /\ answers' = UpdateAnswerRows(attemptId[s], q, Grade(q, questionData[s], userAnswer))
        /\ qIndex' = [qIndex EXCEPT ![s] = q + 1]
        /\ pc' = [pc EXCEPT ![s] = LoopAt(q + 1)]
  /\ questionData' = [questionData EXCEPT ![s] = "null"]
  /\ UNCHANGED <<status, max_attempts, questions, exam_attempts, attempts, attemptId,
                 exam, answersState, loadResult, history, timing, elsewhere>>

\* The completing update with completed_at flipped instead of stamped.
CompleteAttemptReopening(a, score, total) ==
  [i \in 1..Len(exam_attempts) |->
     IF exam_attempts[i].id = a
       THEN [exam_attempts[i] EXCEPT !.completed_at = ~@, !.score = {score},
                                     !.total_points = {total}]
       ELSE exam_attempts[i]]

\* The completing update without total_points.
CompleteAttemptScoreOnly(a, score, total) ==
  [i \in 1..Len(exam_attempts) |->
     IF exam_attempts[i].id = a
       THEN [exam_attempts[i] EXCEPT !.completed_at = TRUE, !.score = {score}]
       ELSE exam_attempts[i]]

\* The update of exam_attempts .eq('id', attemptId): completed_at, score and
\* total_points in one statement.
CompleteAttempt(a, score, total) ==
  [i \in 1..Len(exam_attempts) |->
     IF exam_attempts[i].id = a
       THEN [exam_attempts[i] EXCEPT !.completed_at = TRUE, !.score = {score},
                                     !.total_points = {total}]
       ELSE exam_attempts[i]]

\* On success the page navigates away (and is unmounted); on an error the
\* catch block reports it and the page stays open.
Finalize(s) ==
  /\ pc[s] = "finalize"
  /\ UNCHANGED ops
  /\ \E ok \in BOOLEAN :
       IF ok
         THEN /\ exam_attempts' = CompleteAttempt(attemptId[s], totalScore[s], totalPoints[s])
              /\ scoreWrites' = [scoreWrites EXCEPT ![attemptId[s]] = IF @ < 2 THEN @ + 1 ELSE @]
              /\ pc' = [pc EXCEPT ![s] = "idle"]
              /\ loadResult' = [loadResult EXCEPT ![s] = "submitted"]
              /\ attemptId' = [attemptId EXCEPT ![s] = 0]
              /\ exam' = [exam EXCEPT ![s] = FALSE]
              /\ answersState' = [answersState EXCEPT ![s] = NoAnswers]
              /\ qIndex' = [qIndex EXCEPT ![s] = 0]
              /\ totalScore' = [totalScore EXCEPT ![s] = 0]
              /\ totalPoints' = [totalPoints EXCEPT ![s] = 0]
              /\ Unmount(s)
         ELSE /\ pc' = [pc EXCEPT ![s] = "taking"]
              /\ UNCHANGED <<exam_attempts, scoreWrites, loadResult, attemptId, exam,
                             answersState, qIndex, totalScore, totalPoints, countdown>>
  /\ UNCHANGED <<status, max_attempts, questions, answers, attempts, questionData,
                 lastSaved, time_limit, now, started_at, ticks, elsewhere>>

handleSubmitExam(s) ==
  \/ SubmitStart(s)
  \/ SelectCorrectAnswer(s)
  \/ UpdateAnswer(s)
  \/ Finalize(s)

(***************************************************************************)
(* MyExams: the status menu offers draft -> active, active -> inactive and *)
(* inactive -> active, and changeExamStatus writes the new status.         *)
(***************************************************************************)
\* A menu that also offers to withdraw an inactive exam to draft.
StatusMenuWithdrawing(st) ==
  CASE st = "draft" -> {"active"}
    [] st = "active" -> {"inactive"}
    [] st = "inactive" -> {"active", "draft"}
    [] OTHER -> {}

StatusMenu(st) ==
  CASE st = "draft" -> {"active"}
    [] st = "active" -> {"inactive"}
    [] st = "inactive" -> {"active"}
    [] OTHER -> {}

changeExamStatus ==
  /\ Invoke
  /\ \E newStatus \in StatusMenu(status) : status' = newStatus
  /\ UNCHANGED <<max_attempts, questions, exam_attempts, answers, page, submit, history,
                 timing, elsewhere>>

Next ==
  \/ \E s \in Sessions : loadExam(s)
  \/ \E s \in Sessions : handleAnswerChange(s)
  \/ \E s \in Sessions : handleSubmitExam(s)
  \/ \E s \in Sessions : leave(s)
  \/ changeExamStatus

Spec == Init /\ [][Next]_vars

(***************************************************************************)
(* The time limit.  The wall clock advances; a page's one-second timeout   *)
(* runs on the page's own clock, and the effect on [timeLeft] runs after   *)
(* every render that changed timeLeft: above 0 it sets the timeout, at 0   *)
(* it calls handleSubmitExam.                                              *)
(***************************************************************************)
Advance ==
  /\ \E d \in Delays : now + d <= MaxNow /\ now' = now + d
  /\ UNCHANGED <<lifecycle, time_limit, started_at, countdown, ticks, elsewhere>>

\* setTimeout(() => setTimeLeft(timeLeft - 1), 1000) fires.
TimerFires(s) ==
  /\ pc[s] = "taking"
  /\ ~effectDue[s]
  /\ \E n \in timeLeft[s] : n > 0 /\ SetTimeLeft(s, n - 1)
  /\ ticks < MaxTicks
  /\ ticks' = ticks + 1
  /\ UNCHANGED <<lifecycle, time_limit, now, started_at, elsewhere>>

\* The effect: else if (timeLeft === 0) handleSubmitExam(), which returns at
\* once when attemptId or exam is null.
TimerEffect(s) ==
  /\ pc[s] = "taking"
  /\ effectDue[s]
  /\ effectDue' = [effectDue EXCEPT ![s] = FALSE]
  /\ IF timeLeft[s] = {0} /\ attemptId[s] # 0 /\ exam[s]
       THEN /\ qIndex' = [qIndex EXCEPT ![s] = 1]
            /\ totalScore' = [totalScore EXCEPT ![s] = 0]
            /\ totalPoints' = [totalPoints EXCEPT ![s] = 0]
            /\ pc' = [pc EXCEPT ![s] = LoopAt(1)]
       ELSE UNCHANGED <<pc, qIndex, totalScore, totalPoints>>
  /\ UNCHANGED <<store, attempts, attemptId, exam, answersState, loadResult,
                 questionData, history, ops, time_limit, now, started_at, timeLeft,
                 ticks, elsewhere>>

\* An active exam with a time limit of one minute.
InitTimer ==
  /\ status = "active"
  /\ max_attempts \in MaxAttemptsChoices
  /\ questions \in ExamChoices
  /\ time_limit = {1}
  /\ InitLifecycle
  /\ InitTiming
  /\ InitAuthoring
  /\ InitViews
  /\ NoAccess

\* The operations the time limit bears on, and the passing of time.
NextTimer ==
  \/ \E s \in Sessions : loadExam(s)
  \/ \E s \in Sessions : handleSubmitExam(s)
  \/ \E s \in Sessions : leave(s)
  \/ Advance
  \/ \E s \in Sessions : TimerFires(s)
  \/ \E s \in Sessions : TimerEffect(s)

SpecTimer == InitTimer /\ [][NextTimer]_vars

(***************************************************************************)
(* The exam in any state a student may find it in: one of the four values  *)
(* of exam_status, or deleted ("missing": the exams table holds no row of  *)
(* the id).                                                                *)
(***************************************************************************)
ExamStatuses == {"draft", "active", "inactive", "completed"}

InitAvailability ==
  /\ status \in ExamStatuses \cup {"missing"}
  /\ max_attempts \in MaxAttemptsChoices
  /\ questions \in ExamChoices
  /\ time_limit = {}
  /\ InitLifecycle
  /\ InitTiming
  /\ InitAuthoring
  /\ InitViews
  /\ NoAccess

SpecAvailability == InitAvailability /\ [][Next]_vars

(***************************************************************************)
(* MyExams with several pages open.  fetchExams loads the exam into the    *)
(* page's list; the status menu is drawn from the list, changeExamStatus   *)
(* writes the chosen status to the store and, when the store accepted it,  *)
(* to the list.                                                            *)
(***************************************************************************)
fetchExams(p) ==
  /\ \E ok \in BOOLEAN :
       IF ok
         THEN shown' = [shown EXCEPT ![p] = status] /\ UNCHANGED menuToast
         ELSE menuToast' = [menuToast EXCEPT ![p] = "load error"] /\ UNCHANGED shown
  /\ UNCHANGED <<lifecycle, timing, authoring, access, references, results, forms>>

\* changeExamStatus(exam.id, newStatus), from the menu entry the page offers.
MenuChangeExamStatus(p) ==
  /\ \E newStatus \in StatusMenu(shown[p]) : \E ok \in BOOLEAN :
       IF ok
         THEN /\ status' = newStatus
              /\ shown' = [shown EXCEPT ![p] = newStatus]
              /\ menuToast' = [menuToast EXCEPT ![p] = "updated"]
         ELSE /\ menuToast' = [menuToast EXCEPT ![p] = "error"]
              /\ UNCHANGED <<status, shown>>
  /\ UNCHANGED <<max_attempts, questions, exam_attempts, answers, page, submit, history,
                 ops, timing, authoring, access, references, results, forms>>

InitMenus ==
  /\ status \in ExamStatuses
  /\ max_attempts = 1
  /\ questions = ExamA
  /\ time_limit = {}
  /\ InitLifecycle
  /\ InitTiming
  /\ InitAuthoring
  /\ InitViews
  /\ NoAccess

NextMenus == \E p \in Menus : fetchExams(p) \/ MenuChangeExamStatus(p)

SpecMenus == InitMenus /\ [][NextMenus]_vars

(***************************************************************************)
(* CreateExam.  A text is the sequence of its characters.  handleSubmit    *)
(* is invoked with the form the page holds (title and questions) and the   *)
(* status of the button pressed; the creators are signed-in teachers       *)
(* unless the form says otherwise.  The errors modelled are the one the    *)
(* store raises from its own state (the unique access_code) and a failed   *)
(* insert of the questions (rejected rows, a lost connection, an exam      *)
(* deleted meanwhile).                                                     *)
(***************************************************************************)
Whitespace == {" "}

\* A trim that strips nothing.
TrimNothing(text) == text

\* String.prototype.trim
Trim(text) ==
  LET kept == {i \in 1..Len(text) : text[i] \notin Whitespace}
  IN IF kept = {} THEN << >>
     ELSE SubSeq(text, CHOOSE i \in kept : \A j \in kept : i <= j,
                       CHOOSE i \in kept : \A j \in kept : i >= j)

\* !text.trim(): the empty string is falsy.
IsBlank(text) == Trim(text) = << >>

\* The questions of the forms: options is {} for undefined, else the list.
GoodChoice ==
  [question_text |-> <<"Q">>, question_type |-> "multiple_choice",
   options |-> {<< <<"x">>, <<"y">> >>}]
GoodOpen ==
  [question_text |-> <<"Q", " ">>, question_type |-> "open_answer", options |-> {}]
EmptyOption ==
  [question_text |-> <<"Q">>, question_type |-> "multiple_choice",
   options |-> {<< <<"x">>, << >> >>}]
SpaceOption ==
  [question_text |-> <<"Q">>, question_type |-> "multiple_choice",
   options |-> {<< <<" ">>, <<"y">> >>}]
EmptyText ==
  [question_text |-> << >>, question_type |-> "true_false", options |-> {}]
SpaceText ==
  [question_text |-> <<" ", " ">>, question_type |-> "open_answer", options |-> {}]

\* What handleSubmit finds on the page: the session, examData.title and questions.
Form(session, text, qs) ==
  [signedIn |-> session, title |-> text, questions |-> qs]

Forms ==
  {Form(TRUE, <<" ", "T">>, <<GoodChoice, GoodOpen>>),
   Form(TRUE, << >>, <<GoodChoice>>),
   Form(TRUE, <<" ">>, <<GoodOpen>>),
   Form(TRUE, <<"T">>, << >>),
   Form(TRUE, <<"T">>, <<GoodChoice, EmptyOption>>),
   Form(TRUE, <<"T">>, <<SpaceOption>>),
   Form(TRUE, <<"T">>, <<EmptyText, GoodOpen>>),
   Form(TRUE, <<"T">>, <<GoodOpen, SpaceText>>),
   Form(FALSE, <<"T">>, <<GoodOpen>>),
   Form(FALSE, << >>, << >>)}

\* questions.filter(q => !q.question_text.trim() || (q.question_type ===
\* 'multiple_choice' && (!q.options || q.options.some(opt => !opt.trim()))))
InvalidQuestions(qs) ==
  {i \in 1..Len(qs) :
     \/ IsBlank(qs[i].question_text)
     \/ /\ qs[i].question_type = "multiple_choice"
        /\ \/ qs[i].options = {}
           \/ \E opts \in qs[i].options : \E k \in 1..Len(opts) : IsBlank(opts[k])}

\* The digests md5(random()::text) yields here: the first two agree on their
\* first eight characters.
CodeLength == 8
DigestLength == 32
Padded(head, fill) == head \o [i \in 1..(DigestLength - Len(head)) |-> fill]
Digests ==
  {Padded(<<"a", "b", "1", "2", "c", "d", "3", "4">>, "0"),
   Padded(<<"a", "b", "1", "2", "c", "d", "3", "4">>, "f"),
   Padded(<<"0", "9", "f", "e", "7", "7", "a", "0">>, "1")}

\* upper() on a hexadecimal digit.
Upper(ch) ==
  CASE ch = "a" -> "A" [] ch = "b" -> "B" [] ch = "c" -> "C"
    [] ch = "d" -> "D" [] ch = "e" -> "E" [] ch = "f" -> "F"
    [] OTHER -> ch

\* upper(substring(md5(random()::text) from 1 for 8))
CodeOf(digest) == [i \in 1..CodeLength |-> Upper(SubSeq(digest, 1, CodeLength)[i])]

\* The existence check as the function of the first migration ran it: with
\* the caller's rights, seeing the caller's own exams and the active ones.
CodeExistsUnderPolicies(c, code) ==
  \E i \in 1..Len(exams) :
    /\ exams[i].access_code = code
    /\ exams[i].creator_id = c \/ exams[i].status = "active"

\* SELECT EXISTS(SELECT 1 FROM public.exams WHERE access_code = code), in a
\* SECURITY DEFINER function: every row of exams is seen, whoever calls.
CodeExists(c, code) == \E i \in 1..Len(exams) : exams[i].access_code = code

\* access_code TEXT NOT NULL UNIQUE
AccessCodeTaken(code) == \E i \in 1..Len(exams) : exams[i].access_code = code

\* The synchronous part of handleSubmit: the guards and the validation.
HandleSubmit(c, form, st) ==
  /\ createPc[c] = "idle"
  /\ submits < MaxSubmits
  /\ submits' = submits + 1
  /\ lastSubmit' = {[creator |-> c, form |-> form]}
  /\ IF ~form.signedIn
       THEN UNCHANGED <<createPc, pending, toast>>
       ELSE IF IsBlank(form.title)
       THEN /\ toast' = [toast EXCEPT ![c] = "title required"]
            /\ UNCHANGED <<createPc, pending>>
       ELSE IF Len(form.questions) = 0
       THEN /\ toast' = [toast EXCEPT ![c] = "no questions"]
            /\ UNCHANGED <<createPc, pending>>
       ELSE IF InvalidQuestions(form.questions) # {}
       THEN /\ toast' = [toast EXCEPT ![c] = "invalid questions"]
            /\ UNCHANGED <<createPc, pending>>
       ELSE /\ createPc' = [createPc EXCEPT ![c] = "rpc"]
            /\ pending' = [pending EXCEPT ![c] =
                  {[title |-> form.title, questions |-> form.questions, status |-> st]}]
            /\ UNCHANGED toast
  /\ UNCHANGED <<exams, question_rows, codeData, lifecycle, timing, access, rest>>

\* One turn of the loop of generate_access_code: a candidate is drawn and
\* looked up; the function returns it when no exam carries it.
GenerateAccessCode(c) ==
  /\ createPc[c] = "rpc"
  /\ \E digest \in Digests :
       LET code == CodeOf(digest)
       IN /\ codeData' = [codeData EXCEPT ![c] = {code}]
          /\ createPc' = [createPc EXCEPT ![c] =
                IF CodeExists(c, code) THEN "rpc" ELSE "insertExam"]
  /\ UNCHANGED <<exams, question_rows, pending, toast, submits, lastSubmit, lifecycle, timing, access, rest>>

\* The end of a handleSubmit: the page is left or stays idle.
EndSubmit(c, message) ==
  /\ createPc' = [createPc EXCEPT ![c] = "idle"]
  /\ pending' = [pending EXCEPT ![c] = {}]
  /\ codeData' = [codeData EXCEPT ![c] = {}]
  /\ toast' = [toast EXCEPT ![c] = message]

\* The insert into exams; a taken access_code is an error, thrown to the
\* catch block.
InsertExam(c) ==
  /\ createPc[c] = "insertExam"
  /\ \E form \in pending[c] : \E code \in codeData[c] :
       IF AccessCodeTaken(code)
         THEN /\ EndSubmit(c, "error")
              /\ UNCHANGED exams
         ELSE /\ exams' = Append(exams,
                    [id |-> Len(exams) + 1, title |-> form.title, creator_id |-> c,
                     access_code |-> code, status |-> form.status])
              /\ createPc' = [createPc EXCEPT ![c] = "insertQuestions"]
              /\ UNCHANGED <<pending, codeData, toast>>
  /\ UNCHANGED <<question_rows, submits, lastSubmit, lifecycle, timing, access, rest>>

\* questionsToInsert, for the exam the page's insert created (its last one).
QuestionsToInsert(c, form) ==
  LET own == {i \in 1..Len(exams) : exams[i].creator_id = c}
      examId == CHOOSE i \in own : \A j \in own : j <= i
  IN {[exam_id |-> examId, order_index |-> k - 1,
       question_text |-> form.questions[k].question_text,
       question_type |-> form.questions[k].question_type,
       options |-> IF form.questions[k].question_type = "multiple_choice"
                     THEN form.questions[k].options ELSE {}] :
      k \in 1..Len(form.questions)}

\* The insert into questions.  A questionsError is thrown to the catch
\* block, which shows the toast and leaves the exam row where it is.
InsertQuestions(c) ==
  /\ createPc[c] = "insertQuestions"
  /\ \E form \in pending[c] : \E ok \in BOOLEAN :
       IF ok
         THEN /\ question_rows' = question_rows \cup QuestionsToInsert(c, form)
              /\ EndSubmit(c, "created")
         ELSE /\ UNCHANGED question_rows
              /\ EndSubmit(c, "error")
  /\ UNCHANGED <<exams, submits, lastSubmit, lifecycle, timing, access, rest>>

handleSubmit(c) ==
  \/ \E form \in Forms : \E st \in {"draft", "active"} : HandleSubmit(c, form, st)
  \/ GenerateAccessCode(c)
  \/ InsertExam(c)
  \/ InsertQuestions(c)

InitCreate ==
  /\ status = "active"
  /\ max_attempts = 1
  /\ questions = ExamA
  /\ time_limit = {}
  /\ InitLifecycle
  /\ InitTiming
  /\ InitAuthoring
  /\ InitViews
  /\ NoAccess

NextCreate == \E c \in Creators : handleSubmit(c)

SpecCreate == InitCreate /\ [][NextCreate]_vars

(***************************************************************************)
(* Row level security.  One exam, its questions, its attempts and their    *)
(* answers; a request is made by a caller (auth.uid(), "anon" for none)    *)
(* straight to the store and is decided by the policies of the table.  A   *)
(* policy FOR ALL with USING alone applies its expression to the rows a    *)
(* command reads or removes and to the rows it writes.  The tables a       *)
(* policy queries are read with the caller's rights.  Left out: the        *)
(* management of single questions and of profiles.                         *)
(***************************************************************************)
Students == {"student", "classmate"}
AnswerValues == {"a", "b"}
PolicyIds == 1..MaxPolicyRows

\* The questions rows exist as long as their exam (ON DELETE CASCADE).
QuestionRows == IF examRow = {} THEN {} ELSE {"q1", "q2"}

\* role = 'teacher' OR role = 'admin', on the caller's own profile
IsTeacher(caller) == caller \in Users /\ profiles[caller] \in {"teacher", "admin"}

\* "Teachers can manage their exams"
ManagesExam(caller, e) == IsTeacher(caller) /\ caller = e.creator_id

\* A policy letting every caller see the exams that ever went public.
ViewsPublishedExam(e) == e.status \in {"active", "inactive", "completed"}

\* "Students can view active exams"
ViewsActiveExam(e) == e.status = "active"

ExamSelectable(caller, e) == ManagesExam(caller, e) \/ ViewsActiveExam(e)

\* "Teachers can manage questions for their exams"
ManagesQuestions(caller) ==
  \E e \in examRow :
    ExamSelectable(caller, e) /\ e.creator_id = caller /\ IsTeacher(caller)

\* "Students can view questions during exam"
ViewsQuestions(caller) ==
  \E e \in examRow : ExamSelectable(caller, e) /\ e.status = "active"

\* "Students can manage their own attempts"
ManagesAttempt(caller, row) == caller = row.student_id

\* "Teachers can view attempts for their exams"
ViewsAttempt(caller, row) ==
  \E e \in examRow :
    ExamSelectable(caller, e) /\ e.creator_id = caller /\ IsTeacher(caller)

AttemptSelectable(caller, row) == ManagesAttempt(caller, row) \/ ViewsAttempt(caller, row)

\* "Students can manage their own answers"
ManagesAnswer(caller, row) ==
  \E ea \in attemptRows :
    AttemptSelectable(caller, ea) /\ ea.id = row.attempt_id /\ ea.student_id = caller

\* "Teachers can view answers for their exams"
ViewsAnswer(caller, row) ==
  \E ea \in attemptRows : \E e \in examRow :
    /\ AttemptSelectable(caller, ea) /\ ExamSelectable(caller, e)
    /\ ea.id = row.attempt_id
    /\ e.creator_id = caller /\ IsTeacher(caller)

AnswerSelectable(caller, row) == ManagesAnswer(caller, row) \/ ViewsAnswer(caller, row)

Request(caller, command, table, rows) ==
  reply' = [caller |-> caller, command |-> command, table |-> table, rows |-> rows]

Select(caller) ==
  /\ \/ Request(caller, "select", "exams", {e \in examRow : ExamSelectable(caller, e)})
     \/ Request(caller, "select", "questions",
                IF ManagesQuestions(caller) \/ ViewsQuestions(caller)
                  THEN QuestionRows ELSE {})
     \/ Request(caller, "select", "exam_attempts",
                {row \in attemptRows : AttemptSelectable(caller, row)})
     \/ Request(caller, "select", "answers",
                {row \in answerRows : AnswerSelectable(caller, row)})
  /\ UNCHANGED <<profiles, examRow, attemptRows, answerRows, lifecycle, timing, authoring, rest>>

\* INSERT INTO exam_attempts: the new row must pass the policy, its exam
\* must exist, its id is fresh.
InsertAttemptRow(caller) ==
  /\ \E id \in PolicyIds : \E owner \in Students :
       LET row == [id |-> id, student_id |-> owner, completed |-> FALSE]
       IN /\ \A other \in attemptRows : other.id # id
          /\ attemptRows' =
               IF ManagesAttempt(caller, row) /\ examRow # {}
                 THEN attemptRows \cup {row} ELSE attemptRows
  /\ Request(caller, "insert", "exam_attempts", {})
  /\ UNCHANGED <<profiles, examRow, answerRows, lifecycle, timing, authoring, rest>>

\* UPDATE exam_attempts: the rows the caller may touch, and that still pass
\* the policy as written.
UpdateAttemptRow(caller) ==
  /\ \E old \in attemptRows : \E owner \in Students : \E done \in BOOLEAN :
       LET row == [id |-> old.id, student_id |-> owner, completed |-> done]
       IN attemptRows' =
            IF ManagesAttempt(caller, old) /\ ManagesAttempt(caller, row)
              THEN (attemptRows \ {old}) \cup {row} ELSE attemptRows
  /\ Request(caller, "update", "exam_attempts", {})
  /\ UNCHANGED <<profiles, examRow, answerRows, lifecycle, timing, authoring, rest>>

\* DELETE FROM exam_attempts; the answers of a removed attempt go with it.
DeleteAttemptRow(caller) ==
  /\ \E old \in attemptRows :
       IF ManagesAttempt(caller, old)
         THEN /\ attemptRows' = attemptRows \ {old}
              /\ answerRows' = {a \in answerRows : a.attempt_id # old.id}
         ELSE UNCHANGED <<attemptRows, answerRows>>
  /\ Request(caller, "delete", "exam_attempts", {})
  /\ UNCHANGED <<profiles, examRow, lifecycle, timing, authoring, rest>>

\* INSERT INTO answers, one question: UNIQUE(attempt_id, question_id).
InsertAnswerRow(caller) ==
  /\ \E ea \in attemptRows : \E v \in AnswerValues :
       LET row == [attempt_id |-> ea.id, answer_value |-> v]
       IN /\ \A other \in answerRows : other.attempt_id # ea.id
          /\ answerRows' =
               IF ManagesAnswer(caller, row) THEN answerRows \cup {row} ELSE answerRows
  /\ Request(caller, "insert", "answers", {})
  /\ UNCHANGED <<profiles, examRow, attemptRows, lifecycle, timing, authoring, rest>>

UpdateAnswerRow(caller) ==
  /\ \E old \in answerRows : \E v \in AnswerValues :
       LET row == [attempt_id |-> old.attempt_id, answer_value |-> v]
       IN answerRows' =
            IF ManagesAnswer(caller, old) /\ ManagesAnswer(caller, row)
              THEN (answerRows \ {old}) \cup {row} ELSE answerRows
  /\ Request(caller, "update", "answers", {})
  /\ UNCHANGED <<profiles, examRow, attemptRows, lifecycle, timing, authoring, rest>>

DeleteAnswerRow(caller) ==
  /\ \E old \in answerRows :
       answerRows' = IF ManagesAnswer(caller, old) THEN answerRows \ {old} ELSE answerRows
  /\ Request(caller, "delete", "answers", {})
  /\ UNCHANGED <<profiles, examRow, attemptRows, lifecycle, timing, authoring, rest>>

\* UPDATE exams SET status, as MyExams' status menu requests it.
UpdateExamRow(caller) ==
  /\ \E e \in examRow : \E st \in ExamStatuses :
       LET row == [e EXCEPT !.status = st]
       IN examRow' =
            IF ManagesExam(caller, e) /\ ManagesExam(caller, row) THEN {row} ELSE examRow
  /\ Request(caller, "update", "exams", {})
  /\ UNCHANGED <<profiles, attemptRows, answerRows, lifecycle, timing, authoring, rest>>

\* DELETE FROM exams, as handleDeleteExam requests it: exam_attempts.exam_id
\* and answers.attempt_id are ON DELETE CASCADE, and the cascade is not
\* subject to the policies.
DeleteExamRow(caller) ==
  /\ \E e \in examRow :
       IF ManagesExam(caller, e)
         THEN examRow' = {} /\ attemptRows' = {} /\ answerRows' = {}
         ELSE UNCHANGED <<examRow, attemptRows, answerRows>>
  /\ Request(caller, "delete", "exams", {})
  /\ UNCHANGED <<profiles, lifecycle, timing, authoring, rest>>

InitPolicies ==
  /\ status = "active"
  /\ max_attempts = 1
  /\ questions = ExamA
  /\ time_limit = {}
  /\ InitLifecycle
  /\ InitTiming
  /\ InitAuthoring
  /\ InitViews
  /\ \E role \in {"teacher", "student"} :
       profiles = [u \in Users |->
                     IF u = "teacher" THEN role
                     ELSE IF u = "colleague" THEN "admin" ELSE "student"]
  /\ \E st \in ExamStatuses : examRow = {[creator_id |-> "teacher", status |-> st]}
  /\ attemptRows = {}
  /\ answerRows = {}
  /\ reply = NoReply

NextPolicies ==
  \E caller \in Callers :
    \/ Select(caller)
    \/ InsertAttemptRow(caller)
    \/ UpdateAttemptRow(caller)
    \/ DeleteAttemptRow(caller)
    \/ InsertAnswerRow(caller)
    \/ UpdateAnswerRow(caller)
    \/ DeleteAnswerRow(caller)
    \/ UpdateExamRow(caller)
    \/ DeleteExamRow(caller)

SpecPolicies == InitPolicies /\ [][NextPolicies]_vars

(***************************************************************************)
(* The foreign keys.  Rows are followed by their ids only: an insert is    *)
(* refused when a row it references is missing, and a delete removes,      *)
(* through ON DELETE CASCADE, the rows that reference the deleted ones.    *)
(* Who may make the request is the policies' matter and is left out here.  *)
(***************************************************************************)
ExamIds == 1..NumExams
QuestionIds == {"q1", "q2"}
AttemptRefIds == {"a1", "a2"}

\* A cascade that stops at the attempts and leaves their answers.
CascadeOfAttemptsOnly(gone) == answerRefs

\* answers.attempt_id REFERENCES exam_attempts(id) ON DELETE CASCADE
CascadeOfAttempts(gone) == {a \in answerRefs : a.attempt_id \notin gone}

\* answers.question_id REFERENCES questions(id) ON DELETE CASCADE
CascadeOfQuestions(rows, gone) == {a \in rows : a.question_id \notin gone}

InsertExamRef ==
  /\ \E id \in ExamIds \ examIds : examIds' = examIds \cup {id}
  /\ UNCHANGED <<questionRefs, attemptRefs, answerRefs>>
  /\ UNCHANGED <<lifecycle, timing, authoring, access, menus, results, forms>>

\* questions.exam_id REFERENCES exams(id)
InsertQuestionRef ==
  /\ \E id \in QuestionIds : \E e \in ExamIds :
       /\ \A q \in questionRefs : q.id # id
       /\ questionRefs' =
            IF e \in examIds THEN questionRefs \cup {[id |-> id, exam_id |-> e]}
            ELSE questionRefs
  /\ UNCHANGED <<examIds, attemptRefs, answerRefs>>
  /\ UNCHANGED <<lifecycle, timing, authoring, access, menus, results, forms>>

\* exam_attempts.exam_id REFERENCES exams(id)
InsertAttemptRef ==
  /\ \E id \in AttemptRefIds : \E e \in ExamIds :
       /\ \A a \in attemptRefs : a.id # id
       /\ attemptRefs' =
            IF e \in examIds THEN attemptRefs \cup {[id |-> id, exam_id |-> e]}
            ELSE attemptRefs
  /\ UNCHANGED <<examIds, questionRefs, answerRefs>>
  /\ UNCHANGED <<lifecycle, timing, authoring, access, menus, results, forms>>

\* answers.attempt_id and answers.question_id
InsertAnswerRef ==
  /\ \E a \in AttemptRefIds : \E q \in QuestionIds :
       LET row == [attempt_id |-> a, question_id |-> q]
       IN answerRefs' =
            IF /\ \E ea \in attemptRefs : ea.id = a
               /\ \E qr \in questionRefs : qr.id = q
              THEN answerRefs \cup {row} ELSE answerRefs
  /\ UNCHANGED <<examIds, questionRefs, attemptRefs>>
  /\ UNCHANGED <<lifecycle, timing, authoring, access, menus, results, forms>>

DeleteQuestionRef ==
  /\ \E q \in questionRefs :
       /\ questionRefs' = questionRefs \ {q}
       /\ answerRefs' = CascadeOfQuestions(answerRefs, {q.id})
  /\ UNCHANGED <<examIds, attemptRefs>>
  /\ UNCHANGED <<lifecycle, timing, authoring, access, menus, results, forms>>

DeleteAttemptRef ==
  /\ \E a \in attemptRefs :
       /\ attemptRefs' = attemptRefs \ {a}
       /\ answerRefs' = CascadeOfAttempts({a.id})
  /\ UNCHANGED <<examIds, questionRefs>>
  /\ UNCHANGED <<lifecycle, timing, authoring, access, menus, results, forms>>

\* handleDeleteExam's DELETE FROM exams WHERE id = examToDelete
DeleteExamRef ==
  /\ \E e \in ExamIds :
       LET goneQuestions == {q.id : q \in {r \in questionRefs : r.exam_id = e}}
           goneAttempts == {a.id : a \in {r \in attemptRefs : r.exam_id = e}}
       IN /\ examIds' = examIds \ {e}
          /\ questionRefs' = {q \in questionRefs : q.exam_id # e}
          /\ attemptRefs' = {a \in attemptRefs : a.exam_id # e}
          /\ answerRefs' = CascadeOfQuestions(CascadeOfAttempts(goneAttempts), goneQuestions)
  /\ UNCHANGED <<lifecycle, timing, authoring, access, menus, results, forms>>

InitReferences ==
  /\ status = "active"
  /\ max_attempts = 1
  /\ questions = ExamA
  /\ time_limit = {}
  /\ InitLifecycle
  /\ InitTiming
  /\ InitAuthoring
  /\ InitViews
  /\ NoAccess

NextReferences ==
  \/ InsertExamRef
  \/ InsertQuestionRef
  \/ InsertAttemptRef
  \/ InsertAnswerRef
  \/ DeleteQuestionRef
  \/ DeleteAttemptRef
  \/ DeleteExamRef

SpecReferences == InitReferences /\ [][NextReferences]_vars

(***************************************************************************)
(* Profiles and the management of exams.  Every identity holds the role    *)
(* it signed up with; the requests are the update of a profile and the     *)
(* insert, update and delete of the one exam.                              *)
(***************************************************************************)
Roles == {"admin", "teacher", "student"}

\* handle_new_user: the role of the sign-up form, 'student' by default.
SignupRole ==
  [u \in Users |->
     IF u = "teacher" THEN "teacher" ELSE IF u = "colleague" THEN "admin" ELSE "student"]

\* "Users can update their own profile"
UpdatesProfile(caller, user) == caller = user

\* UPDATE profiles SET role: no column is excluded from the update.
UpdateProfileRow(caller) ==
  /\ \E user \in Users : \E role \in Roles :
       profiles' =
         IF UpdatesProfile(caller, user) THEN [profiles EXCEPT ![user] = role]
         ELSE profiles
  /\ Request(caller, "update", "profiles", {})
  /\ UNCHANGED <<examRow, attemptRows, answerRows, lifecycle, timing, authoring, rest>>

\* INSERT INTO exams, as CreateExam requests it (one exam is modelled).
InsertExamRow(caller) ==
  /\ examRow = {}
  /\ \E creator \in Users : \E st \in {"draft", "active"} :
       LET row == [creator_id |-> creator, status |-> st]
       IN examRow' = IF ManagesExam(caller, row) THEN {row} ELSE examRow
  /\ Request(caller, "insert", "exams", {})
  /\ UNCHANGED <<profiles, attemptRows, answerRows, lifecycle, timing, authoring, rest>>

InitProfiles ==
  /\ status = "active"
  /\ max_attempts = 1
  /\ questions = ExamA
  /\ time_limit = {}
  /\ InitLifecycle
  /\ InitTiming
  /\ InitAuthoring
  /\ InitViews
  /\ profiles = SignupRole
  /\ examRow \in {{}, {[creator_id |-> "teacher", status |-> "draft"]}}
  /\ attemptRows = {}
  /\ answerRows = {}
  /\ reply = NoReply

NextProfiles ==
  \E caller \in Callers :
    \/ UpdateProfileRow(caller)
    \/ InsertExamRow(caller)
    \/ UpdateExamRow(caller)
    \/ DeleteExamRow(caller)

SpecProfiles == InitProfiles /\ [][NextProfiles]_vars

(***************************************************************************)
(* ExamResult.  loadResults asks the store for the attempt and decides     *)
(* whether the page shows it.  The viewers hold the roles they signed up   *)
(* with; "teacher" created the exam.  The store hands the attempt to its   *)
(* student and to the exam's creator only.                                 *)
(***************************************************************************)
\* The policies of exam_attempts, for the attempt the page asks for.
ResultReadable(v) ==
  \/ v = resultAttempt.student_id
  \/ v = "teacher" /\ SignupRole[v] \in {"teacher", "admin"}

\* The page is opened: useEffect calls loadResults.
MountResult(v) ==
  /\ resultPc[v] \in {"closed", "dashboard"}
  /\ resultPc' = [resultPc EXCEPT ![v] = "loading"]
  /\ UNCHANGED <<show_results_immediately, resultAttempt>>
  /\ UNCHANGED <<lifecycle, timing, authoring, access, menus, references, forms>>

\* isStudent && !data.exam.show_results_immediately && !data.completed_at
HidesResult(isStudent) ==
  isStudent /\ ~show_results_immediately /\ ~resultAttempt.completed_at

\* The query returns and loadResults decides.
loadResults(v) ==
  /\ resultPc[v] = "loading"
  /\ \E ok \in BOOLEAN :
       LET isTeacher == SignupRole[v] \in {"teacher", "admin"}
           isStudent == resultAttempt.student_id = v
       IN resultPc' = [resultPc EXCEPT ![v] =
            IF ~ok \/ ~ResultReadable(v) THEN "dashboard"
            ELSE IF ~isTeacher /\ ~isStudent THEN "dashboard"
            ELSE IF HidesResult(isStudent) THEN "dashboard"
            ELSE "shown"]
  /\ UNCHANGED <<show_results_immediately, resultAttempt>>
  /\ UNCHANGED <<lifecycle, timing, authoring, access, menus, references, forms>>

\* The student's handleSubmitExam completes the attempt.
SubmitResultAttempt ==
  /\ ~resultAttempt.completed_at
  /\ resultAttempt' = [resultAttempt EXCEPT !.completed_at = TRUE]
  /\ UNCHANGED <<show_results_immediately, resultPc>>
  /\ UNCHANGED <<lifecycle, timing, authoring, access, menus, references, forms>>

\* The viewer leaves the result.
CloseResult(v) ==
  /\ resultPc[v] = "shown"
  /\ resultPc' = [resultPc EXCEPT ![v] = "closed"]
  /\ UNCHANGED <<show_results_immediately, resultAttempt>>
  /\ UNCHANGED <<lifecycle, timing, authoring, access, menus, references, forms>>

InitResults ==
  /\ status = "active"
  /\ max_attempts = 1
  /\ questions = ExamA
  /\ time_limit = {}
  /\ InitLifecycle
  /\ InitTiming
  /\ InitAuthoring
  /\ shown = [p \in Menus |-> "none"]
  /\ menuToast = [p \in Menus |-> "none"]
  /\ examIds = {}
  /\ questionRefs = {}
  /\ attemptRefs = {}
  /\ answerRefs = {}
  /\ show_results_immediately \in BOOLEAN
  /\ \E owner \in {"student", "colleague"} :
       resultAttempt = [student_id |-> owner, completed_at |-> FALSE]
  /\ resultPc = [v \in Users |-> "closed"]
  /\ question = NewQuestion
  /\ lastEdit = NoEdit
  /\ NoAccess

NextResults ==
  \/ \E v \in Users : MountResult(v) \/ loadResults(v) \/ CloseResult(v)
  \/ SubmitResultAttempt

SpecResults == InitResults /\ [][NextResults]_vars

(***************************************************************************)
(* QuestionForm: the editor of one question of CreateExam.  Every handler  *)
(* hands its updates to onUpdate, which CreateExam's updateQuestion merges *)
(* into the question.  The handlers are reached through the controls the   *)
(* form renders: the option controls only on a multiple_choice question    *)
(* with options, "Agregar opción" while fewer than MaxOptions options      *)
(* exist, the trash button of an option while more than MinOptions exist.  *)
(* Options are indexed from 0 as in the code; the sequence holds option i  *)
(* at position i + 1.                                                      *)
(***************************************************************************)
MaxOptions == 6
MinOptions == 2
QuestionTypes == {"multiple_choice", "true_false", "open_answer"}
OptionTexts == {"", "a", "b"}

Options == CHOOSE o \in question.options : TRUE
ShowsOptions ==
  question.question_type = "multiple_choice" /\ question.options # {}

\* updateQuestion: { ...q, ...updates }
updateQuestion(updates, call, index) ==
  /\ question' = updates
  /\ lastEdit' = [call |-> call, index |-> index]
  /\ UNCHANGED <<lifecycle, timing, authoring, access, menus, references, results>>

handleTypeChange(newType) ==
  /\ newType \in QuestionTypes
  /\ updateQuestion(
       IF newType = "multiple_choice"
         THEN [question_type |-> newType, options |-> {<<"", "", "", "">>},
               correct_answer |-> Index(0)]
       ELSE IF newType = "true_false"
         THEN [question_type |-> newType, options |-> {},
               correct_answer |-> Bool(TRUE)]
       ELSE [question_type |-> newType, options |-> {},
             correct_answer |-> Text("")],
       "handleTypeChange", 0)

updateOption(index, value) ==
  /\ ShowsOptions
  /\ index \in 0..(Len(Options) - 1)
  /\ updateQuestion(
       [question EXCEPT !.options = {[Options EXCEPT ![index + 1] = value]}],
       "updateOption", index)

addOption ==
  /\ ShowsOptions
  /\ Len(Options) < MaxOptions
  /\ updateQuestion(
       [question EXCEPT !.options = {Append(Options, "")}], "addOption", 0)

\* options.filter((_, i) => i !== index)
WithoutOption(options, index) ==
  [k \in 1..(Len(options) - 1) |->
     IF k <= index THEN options[k] ELSE options[k + 1]]

removeOption(index) ==
  /\ ShowsOptions
  /\ Len(Options) > MinOptions
  /\ index \in 0..(Len(Options) - 1)
  /\ LET newOptions == WithoutOption(Options, index)
     IN updateQuestion(
          [question EXCEPT
             !.options = {newOptions},
             !.correct_answer =
               IF question.correct_answer.n >= Len(newOptions)
                 THEN Index(0) ELSE question.correct_answer],
          "removeOption", index)

\* The RadioGroup of the options: parseInt of the item's value.
SelectCorrectOption(index) ==
  /\ ShowsOptions
  /\ index \in 0..(Len(Options) - 1)
  /\ updateQuestion([question EXCEPT !.correct_answer = Index(index)],
                    "correct_answer", index)

\* The RadioGroup of a true_false question.
SelectTrueFalse(value) ==
  /\ question.question_type = "true_false"
  /\ updateQuestion([question EXCEPT !.correct_answer = Bool(value)],
                    "correct_answer", 0)

\* The textarea of an open_answer question.
TypeModelAnswer(value) ==
  /\ question.question_type = "open_answer"
  /\ updateQuestion([question EXCEPT !.correct_answer = Text(value)],
                    "correct_answer", 0)

InitForms ==
  /\ status = "active"
  /\ max_attempts = 1
  /\ questions = ExamA
  /\ time_limit = {}
  /\ InitLifecycle
  /\ InitTiming
  /\ InitAuthoring
  /\ InitViews
  /\ NoAccess

NextForms ==
  \/ \E newType \in QuestionTypes : handleTypeChange(newType)
  \/ \E index \in 0..(MaxOptions - 1), value \in OptionTexts :
       updateOption(index, value)
  \/ addOption
  \/ \E index \in 0..(MaxOptions - 1) :
       removeOption(index) \/ SelectCorrectOption(index)
  \/ \E value \in BOOLEAN : SelectTrueFalse(value)
  \/ \E value \in OptionTexts : TypeModelAnswer(value)

SpecForms == InitForms /\ [][NextForms]_vars

(***************************************************************************)
(* The claims.                                                             *)
(***************************************************************************)
AttemptIds == 1..Len(exam_attempts)
SubmitPcs == {"select", "update", "finalize"}
Completed(a) == exam_attempts[a].completed_at
NumCompleted(rows) == Cardinality({i \in 1..Len(rows) : rows[i].completed_at})

\* A step of the page s.
StepOf(s) == pc'[s] # pc[s] \/ qIndex'[s] # qIndex[s]

\* C1: when loadExam read an incomplete attempt and no attempt was completed
\* since, the load resumes that attempt: it is not rejected and it creates no
\* row, whatever max_attempts is.
C1_ResumeIsIdempotent ==
  \A s \in Sessions :
    LET a == IncompleteAttempt(attempts[s])
    IN (pc[s] # "readExam" /\ a # 0 /\ ~Completed(a) /\ loadResult[s] # "error")
       => \/ pc[s] = "loadAnswers" /\ attemptId[s] = a
          \/ loadResult[s] = "resumed"

\* C2: a submission invoked on an attempt whose completed_at is set is
\* rejected, and none of its steps changes the attempt or the answers.
C2_SubmitCompletedRejected ==
  [][\A s \in Sessions :
       (attemptId[s] # 0 /\ Completed(attemptId[s]) /\ StepOf(s))
       => /\ ~(pc[s] = "taking" /\ pc'[s] \in SubmitPcs)
          /\ (pc[s] \in SubmitPcs => exam_attempts' = exam_attempts /\ answers' = answers)]_vars

\* An answer row as the insert leaves it: not graded.
Ungraded(r) == r.is_correct = "null" /\ r.points_earned = {0}

\* C3: no attempt is incomplete while answers of it carry a grading.
C3_SubmissionIsAtomic ==
  \A a \in AttemptIds :
    ~Completed(a) => \A r \in answers : r.attempt_id = a => Ungraded(r)

\* The page s has written a grade in its running submission.
HasGraded(s) == pc[s] \in SubmitPcs /\ (qIndex[s] > 1 \/ pc[s] = "finalize")

\* C4: of two submissions of one attempt at most one grades and finalizes,
\* and the attempt's score is written once.
C4_SingleSubmission ==
  /\ \A a \in 1..MaxAttemptRows : scoreWrites[a] <= 1
  /\ \A s1, s2 \in Sessions :
       (s1 # s2 /\ HasGraded(s1) /\ HasGraded(s2)) => attemptId[s1] # attemptId[s2]

\* C5: with max_attempts = N other than 999 the pair never has more than N
\* attempts, and a loadExam that read N completed attempts goes neither to
\* the resume nor to the create branch; with 999 no load ends on the limit.
C5_AttemptLimit ==
  /\ max_attempts # Unlimited => Len(exam_attempts) <= max_attempts
  /\ \A s \in Sessions :
       /\ (max_attempts # Unlimited /\ pc[s] # "readExam"
           /\ NumCompleted(attempts[s]) >= max_attempts)
          => (pc[s] = "idle" /\ loadResult[s] \in {"limit", "error"} /\ attemptId[s] = 0)
       /\ max_attempts = Unlimited => loadResult[s] # "limit"

\* C5, witness: N attempts are completed and a load was rejected on the limit.
C5_Witness ==
  \E s \in Sessions :
    /\ max_attempts # Unlimited
    /\ NumCompleted(exam_attempts) = max_attempts
    /\ NumCompleted(attempts[s]) = max_attempts
    /\ loadResult[s] = "limit"

\* The reference grade(type, submitted, correct) of the Scoring Policy.
GradeRef(q, submitted) ==
  IF questions[q].question_type \in AutoGradable
    THEN IF submitted = questions[q].correct_answer
           THEN [is_correct |-> "true", points_earned |-> {questions[q].points}]
           ELSE [is_correct |-> "false", points_earned |-> {0}]
    ELSE [is_correct |-> "null", points_earned |-> {}]

\* C6: the grade a grading step writes to an answer row is grade(type,
\* submitted value, correct_answer), the submitted value being the row's
\* answer_value or the value the submitting page holds for the question.
C6_GradingMatchesReference ==
  [][\A s \in Sessions :
       (pc[s] = "update" /\ qIndex'[s] = qIndex[s] + 1)
       => \A r \in answers' :
            (r.attempt_id = attemptId[s] /\ r.question_id = qIndex[s])
            => [is_correct |-> r.is_correct, points_earned |-> r.points_earned]
                 \in {GradeRef(qIndex[s], r.answer_value),
                      GradeRef(qIndex[s], answersState[s][qIndex[s]])}]_vars

\* The auto-gradable questions of the attempt a whose answer row holds the
\* correct answer, and those the page s holds the correct answer for.
CorrectInStore(a) ==
  {q \in QIds : /\ questions[q].question_type \in AutoGradable
                /\ \E r \in AnswerRows(a, q) : r.answer_value = questions[q].correct_answer}

CorrectOnPage(s) ==
  {q \in QIds : /\ questions[q].question_type \in AutoGradable
                /\ answersState[s][q] = questions[q].correct_answer}

\* C7: the update that completes an attempt writes total_points = the sum of
\* the points of all questions and score = the sum of the points of the
\* auto-gradable questions answered correctly (as stored, or as held by the
\* submitting page).
C7_ScoreAndTotal ==
  [][\A s \in Sessions :
       (pc[s] = "finalize" /\ pc'[s] = "idle")
       => LET a == attemptId[s]
          IN /\ exam_attempts'[a].total_points = {SumPoints(QIds)}
             /\ exam_attempts'[a].score \in {{SumPoints(CorrectInStore(a))},
                                             {SumPoints(CorrectOnPage(s))}}]_vars

\* C8: a grading step on a question the attempt holds no answer row for adds
\* nothing to the score, adds the question's points to total_points, grades
\* it false with 0 points (auto-gradable) or leaves it ungraded (manual), and
\* writes nothing.
C8_UnansweredIsZero ==
  [][\A s \in Sessions :
       (pc[s] = "update" /\ qIndex'[s] = qIndex[s] + 1
        /\ AnswerRows(attemptId[s], qIndex[s]) = {})
       => /\ totalScore'[s] = totalScore[s]
          /\ totalPoints'[s] = totalPoints[s] + questions[qIndex[s]].points
          /\ Grade(qIndex[s], questionData[s], answersState[s][qIndex[s]])
               = GradeRef(qIndex[s], "undefined")
          /\ answers' = answers]_vars

\* C9: an (attempt, question) pair has at most one answer row, and the row
\* holds the value of the save that reached the store last.
C9_LastWriteWins ==
  \A a \in 1..MaxAttemptRows : \A q \in QIds :
    /\ Cardinality(AnswerRows(a, q)) <= 1
    /\ lastSaved[<<a, q>>] # "undefined"
       => \E r \in AnswerRows(a, q) : r.answer_value = lastSaved[<<a, q>>]

\* C10: no two attempts of the pair carry the same attempt_number, and a load
\* whose insert the uniqueness constraint rejected ends resuming the attempt
\* the other caller created.
C10_ConflictRetries ==
  /\ \A a, b \in AttemptIds :
       exam_attempts[a].attempt_number = exam_attempts[b].attempt_number => a = b
  /\ \A s \in Sessions :
       loadResult[s] = "conflict"
       => (pc[s] # "idle" /\ attemptId[s] # 0 /\ ~Completed(attemptId[s]))

\* C13: the attempts of the pair carry the numbers 1..k in the order of their
\* creation: every attempt was created with the number of attempts existing
\* at its insert plus one, without gap and without duplicate.
C13_SequentialNumbers ==
  \A a \in AttemptIds : exam_attempts[a].attempt_number = a

\* C13, witness: a second attempt was created by a page that read one attempt.
C13_Witness ==
  /\ Len(exam_attempts) >= 2
  /\ \E s \in Sessions :
       loadResult[s] = "created" /\ Len(attempts[s]) = 1 /\ attemptId[s] = 2

\* C14: no step clears the completed_at of an attempt: a completed attempt
\* stays completed.
C14_NoReopening ==
  [][\A a \in AttemptIds : Completed(a) => exam_attempts'[a].completed_at]_vars

\* C14, witness: an attempt that was completed twice (a second submission ran
\* on the completed attempt) and is completed.
C14_Witness ==
  \E a \in AttemptIds : Completed(a) /\ scoreWrites[a] = 2

\* C15: score, total_points and completed_at of an attempt are all null or
\* all set.
C15_ScoreSetTogether ==
  \A a \in AttemptIds :
    /\ (exam_attempts[a].score = {}) <=> ~Completed(a)
    /\ (exam_attempts[a].total_points = {}) <=> ~Completed(a)

\* C15, witness: one attempt completed with score and total_points, and one
\* attempt in progress with neither.
C15_Witness ==
  \E a, b \in AttemptIds :
    /\ Completed(a) /\ exam_attempts[a].score # {} /\ exam_attempts[a].total_points # {}
    /\ ~Completed(b) /\ exam_attempts[b].score = {} /\ exam_attempts[b].total_points = {}

\* C16: a page that takes the exam shows no answer as saved that the store
\* does not hold: when the store has answered the page's save of the value
\* shown for a question, the attempt's answer row of the question holds it.
C16_FailedSaveSurfaced ==
  \A s \in Sessions : \A q \in QIds :
    (/\ pc[s] = "taking" /\ attemptId[s] # 0
     /\ answersState[s][q] # "undefined"
     /\ lastSaved[<<attemptId[s], q>>] = answersState[s][q])
    => \E r \in AnswerRows(attemptId[s], q) : r.answer_value = answersState[s][q]

\* The whole seconds between start and now, and the time that remains of the
\* limit after them.
WholeSeconds(start) ==
  CHOOSE e \in 0..(MaxNow \div MsPerSecond) :
    e * MsPerSecond <= now - start /\ now - start < (e + 1) * MsPerSecond

RemainingRef(start) ==
  LET left == TimeLimit * SecondsPerMinute - WholeSeconds(start)
  IN IF left < 0 THEN 0 ELSE left

\* C11: a resume of an attempt of an exam with a time limit sets the
\* remaining time to time_limit * 60 minus the whole seconds elapsed since
\* started_at, not below 0; and a page that resumed with no time remaining
\* does not come to rest (no handler running, no effect due) with the attempt
\* incomplete: the attempt is submitted without the student acting.
C11_ForcedSubmission ==
  /\ [][\A s \in Sessions :
          (pc[s] = "loadAnswers" /\ pc'[s] = "taking" /\ HasTimeLimit)
          => timeLeft'[s] = {RemainingRef(started_at[attemptId[s]])}]_vars
  /\ [](\A s \in Sessions :
          (/\ loadResult[s] = "resumed" /\ pc[s] = "taking"
           /\ timeLeft[s] = {0} /\ ~effectDue[s] /\ ticks = 0)
          => Completed(attemptId[s]))

\* C12: when loadExam's exam query finds the exam missing or in a status
\* other than active, the load is rejected: it ends there, the page holds no
\* attempt, and no attempt or answer row is written; only a load that found
\* the exam active goes on to resume or create an attempt.
C12_OnlyActiveExams ==
  [][\A s \in Sessions :
       (pc[s] = "readExam" /\ pc'[s] # "readExam")
       => /\ exam_attempts' = exam_attempts /\ answers' = answers
          /\ status # "active"
               => (pc'[s] = "idle" /\ loadResult'[s] = "error" /\ attemptId'[s] = 0)
          /\ pc'[s] \in {"loadAnswers", "insert"} => status = "active"]_vars

\* C12, witness: the student holds an attempt in progress, the exam is no
\* longer active, and a load that read the attempt was rejected.
C12_Witness ==
  \E s \in Sessions :
    /\ status = "inactive"
    /\ loadResult[s] = "error" /\ pc[s] = "idle" /\ attemptId[s] = 0
    /\ IncompleteAttempt(attempts[s]) # 0
    /\ Len(exam_attempts) = Len(attempts[s])

\* A text of nothing but whitespace.
BlankText(text) == \A i \in 1..Len(text) : text[i] \in Whitespace

\* The forms the validation must turn down.
InvalidForm(form) ==
  \/ BlankText(form.title)
  \/ Len(form.questions) = 0
  \/ \E i \in 1..Len(form.questions) :
       LET q == form.questions[i]
       IN \/ BlankText(q.question_text)
          \/ /\ q.question_type = "multiple_choice"
             /\ \E opts \in q.options : \E k \in 1..Len(opts) : BlankText(opts[k])

ValidationToasts == {"title required", "no questions", "invalid questions"}

\* C17: a handleSubmit on a form with a blank title, no questions, a question
\* of blank text or a multiple_choice question with a blank option starts no
\* backend call (the page stays idle, no access code is asked for), leaves
\* the stored exams and questions as they are, and, for a signed-in creator,
\* ends with a validation toast.
C17_ValidationBeforeWrites ==
  [][\A call \in lastSubmit' :
       (submits' # submits /\ InvalidForm(call.form))
       => /\ createPc' = createPc
          /\ codeData' = codeData /\ pending' = pending
          /\ exams' = exams /\ question_rows' = question_rows
          /\ call.form.signedIn => toast'[call.creator] \in ValidationToasts]_vars

\* C17, witness: a creator whose exam and questions are stored submitted an
\* invalid form next; the page reports it and holds no call in flight.
C17_Witness ==
  \E c \in Creators :
    /\ toast[c] = "invalid questions" /\ createPc[c] = "idle"
    /\ \E call \in lastSubmit : call.creator = c /\ InvalidForm(call.form)
    /\ Len(exams) = 1 /\ exams[1].creator_id = c
    /\ \E row \in question_rows : row.exam_id = 1

UpperAlphanumerics ==
  {"0", "1", "2", "3", "4", "5", "6", "7", "8", "9",
   "A", "B", "C", "D", "E", "F", "G", "H", "I", "J", "K", "L", "M",
   "N", "O", "P", "Q", "R", "S", "T", "U", "V", "W", "X", "Y", "Z"}

WellFormedCode(code) ==
  Len(code) = 8 /\ \A i \in 1..Len(code) : code[i] \in UpperAlphanumerics

StoredCodes == {exams[i].access_code : i \in 1..Len(exams)}

\* C18: the code generate_access_code returns has eight uppercase
\* alphanumeric characters and is the access_code of no exam stored when it
\* returns; the function goes round its loop again only on a candidate some
\* exam carries; and whatever the interleaving of the creations, the stored
\* exams carry well-formed codes that differ from one another.
C18_UniqueAccessCodes ==
  /\ [][\A c \in Creators :
          /\ (createPc[c] = "rpc" /\ createPc'[c] = "insertExam")
               => \E code \in codeData'[c] :
                    WellFormedCode(code) /\ code \notin StoredCodes
          /\ (createPc[c] = "rpc" /\ createPc'[c] = "rpc" /\ codeData'[c] # codeData[c])
               => codeData'[c] \subseteq StoredCodes]_vars
  /\ [](\A i, j \in 1..Len(exams) :
          /\ WellFormedCode(exams[i].access_code)
          /\ i # j => exams[i].access_code # exams[j].access_code)

\* C18, witness: two creators were handed the same code at the same time;
\* the first insert stored its exam under it and the second was refused.
C18_Witness ==
  \E c \in Creators :
    /\ toast[c] = "error" /\ createPc[c] = "idle"
    /\ Len(exams) = 1 /\ exams[1].creator_id # c
    /\ \A row \in question_rows : row.exam_id = 1
    /\ question_rows # {}

\* The student an answer row belongs to, before or after the step.
OwnsAnswer(caller, row, rows) ==
  \E ea \in rows : ea.id = row.attempt_id /\ ea.student_id = caller

\* The creator of the exam, holding the role of a teacher or an admin.
IsCreator(caller) ==
  \E e \in examRow :
    e.creator_id = caller /\ caller \in Users /\ profiles[caller] \in {"teacher", "admin"}

C20_ActiveExamsOnly ==
  [][\A e \in examRow :
       (/\ reply'.command = "select" /\ reply'.table \in {"exams", "questions"}
        /\ reply'.caller # e.creator_id
        /\ reply'.rows # {})
       => e.status = "active"]_vars

\* C20, witness: a student and the anonymous caller asked for the exam and
\* for the questions of a completed exam, and were handed nothing; here the
\* latest of these requests, the student's for the questions, after an
\* attempt of that student was stored while the exam was active.
C20_Witness ==
  /\ reply = [caller |-> "student", command |-> "select", table |-> "questions",
              rows |-> {}]
  /\ \E e \in examRow : e.status = "completed"
  /\ \E row \in attemptRows : row.student_id = "student"

\* C21: an exam row appears, changes or disappears only in a request of the
\* caller its creator_id names, whose profile then holds the role teacher
\* or admin, and who did not sign up with the role student.
C21_TeachersManageExams ==
  [][\A e \in (examRow \ examRow') \cup (examRow' \ examRow) :
       /\ reply'.caller = e.creator_id
       /\ profiles[e.creator_id] \in {"teacher", "admin"}
       /\ SignupRole[e.creator_id] # "student"]_vars

MenuTransitions ==
  {<<"draft", "active">>, <<"active", "inactive">>, <<"inactive", "active">>}

\* C22: whatever the creator's MyExams pages show, a change of the exam's
\* status made from their menus is draft -> active, active -> inactive or
\* inactive -> active: no status is followed by draft, and completed is
\* followed by nothing.
C22_MenuTransitions ==
  [][status' # status => <<status, status'>> \in MenuTransitions]_vars

\* C22, witness: the exam was deactivated on one page and then activated
\* on another, while the first page still lists it as inactive.
C22_Witness ==
  /\ status = "active"
  /\ \E p, q \in Menus :
       /\ shown[p] = "inactive" /\ menuToast[p] = "updated"
       /\ shown[q] = "active" /\ menuToast[q] = "updated"

\* C23: every question and every attempt references an existing exam, and
\* every answer an existing attempt and an existing question; and a delete
\* of an exam leaves none of its questions, none of its attempts and none
\* of their answers.
C23_DeleteCascades ==
  /\ [](/\ \A q \in questionRefs : q.exam_id \in examIds
        /\ \A a \in attemptRefs : a.exam_id \in examIds
        /\ \A r \in answerRefs :
             /\ \E a \in attemptRefs : a.id = r.attempt_id
             /\ \E q \in questionRefs : q.id = r.question_id)
  /\ [][\A e \in examIds \ examIds' :
          /\ \A q \in questionRefs' : q.exam_id # e
          /\ \A a \in attemptRefs' : a.exam_id # e
          /\ \A a \in attemptRefs : a.exam_id = e
               => \A r \in answerRefs' : r.attempt_id # a.id]_vars

\* C23, witness: one exam was deleted with its question, its attempt and
\* their answer, and the other exam still holds a question, an attempt and
\* an answer.
C23_Witness ==
  /\ Cardinality(examIds) = 1
  /\ Cardinality(questionRefs) = 1 /\ Cardinality(attemptRefs) = 1
  /\ Cardinality(answerRefs) = 1

\* C24: once an attempt is completed, every answer row it has already was
\* there before the step, with the same answer_value: no page creates an
\* answer of the attempt or alters a value.
C24_AnswersFrozen ==
  [][\A a \in AttemptIds :
       Completed(a)
       => \A row \in {r \in answers' : r.attempt_id = a} :
            \E old \in answers :
              /\ old.attempt_id = a
              /\ old.question_id = row.question_id
              /\ old.answer_value = row.answer_value]_vars

\* C26: the student's attempts of the exam hold at most one row with
\* completed_at null, whatever the interleaving of the pages.
C26_OneOpenAttempt ==
  Cardinality({a \in AttemptIds : ~Completed(a)}) <= 1

\* C26, witness: two pages loaded the exam at the same time and found no
\* attempt; one created the attempt, the insert of the other was refused.
C26_Witness ==
  \E s, u \in Sessions :
    /\ loadResult[s] = "created" /\ pc[s] = "taking" /\ ~Completed(attemptId[s])
    /\ loadResult[u] = "conflict" /\ Len(attempts[u]) = Len(attempts[s])

\* The sum of the non-null points_earned of the rows of S.
RECURSIVE SumEarned(_)
SumEarned(S) ==
  IF S = {} THEN 0
  ELSE LET r == CHOOSE x \in S : TRUE
           rest_ == SumEarned(S \ {r})
       IN IF r.points_earned = {} THEN rest_
          ELSE (CHOOSE n \in r.points_earned : TRUE) + rest_

\* C27: the score of a completed attempt is the sum of the points_earned of
\* the answer rows stored for the attempt.
C27_ScoreIsSumOfRows ==
  \A a \in AttemptIds :
    Completed(a)
    => exam_attempts[a].score = {SumEarned({r \in answers : r.attempt_id = a})}

\* C28: a grading step on an auto-gradable question whose value on the page
\* equals the question's correct_answer writes is_correct = true and the
\* question's points to the answer row, whatever the exam's status is by
\* then.
C28_GradeIgnoresStatus ==
  [][\A s \in Sessions :
       (/\ pc[s] = "update" /\ qIndex'[s] = qIndex[s] + 1
        /\ questions[qIndex[s]].question_type \in AutoGradable
        /\ answersState[s][qIndex[s]] = questions[qIndex[s]].correct_answer)
       => \A r \in answers' :
            (r.attempt_id = attemptId[s] /\ r.question_id = qIndex[s])
            => /\ r.is_correct = "true"
               /\ r.points_earned = {questions[qIndex[s]].points}]_vars

\* C25: when loadResults decides for the student who owns the attempt and
\* the exam does not show results immediately, the page goes to the
\* dashboard and shows no result, completed or not.
C25_HiddenFromStudent ==
  [][\A v \in Users :
       (/\ resultPc[v] = "loading" /\ resultPc'[v] # "loading"
        /\ v = resultAttempt.student_id /\ SignupRole[v] = "student"
        /\ ~show_results_immediately)
       => resultPc'[v] = "dashboard"]_vars

\* C30: a multiple_choice question of the form always has at least two
\* options and a correct_answer that is the index of one of them, and a
\* removeOption of an option other than the correct one leaves the option
\* of the same text marked correct.
C30_CorrectOptionKept ==
  /\ [](ShowsOptions
        => /\ Len(Options) >= MinOptions
           /\ question.correct_answer.tag = "number"
           /\ question.correct_answer.n \in 0..(Len(Options) - 1))
  /\ [][(/\ lastEdit'.call = "removeOption" /\ question' # question
         /\ lastEdit'.index # question.correct_answer.n)
        => LET newOptions == CHOOSE o \in question'.options : TRUE
           IN newOptions[question'.correct_answer.n + 1]
                = Options[question.correct_answer.n + 1]]_vars

\* C29: when a handleSubmit that inserted its exam row ends, the exam's
\* question rows exist, one per question of the form with order_index
\* 0..n-1: no exam is left without its questions.
C29_ExamWithItsQuestions ==
  [][\A c \in Creators :
       (createPc[c] = "insertQuestions" /\ createPc'[c] = "idle")
       => \A form \in pending[c] :
            LET rows == QuestionsToInsert(c, form)
            IN /\ rows \subseteq question_rows'
               /\ {r.order_index : r \in rows} = 0..(Len(form.questions) - 1)]_vars

====
